---- MODULE Spec2Model ----
(***************************************************************************)
(* State-machine model of lseco: the secure-memory core                    *)
(* (src/secure_memory.c) and its foreign-call wrappers (src/lseco_ffi.c).  *)
(*                                                                         *)
(* A caller thread is either idle or inside one call; every platform call  *)
(* of a function (malloc, posix_memalign, mlock, mprotect, memcpy, the     *)
(* zeroing, munlock, free) is one step, so that the order of the steps and *)
(* the states between them can be examined.  Platform calls that can be    *)
(* refused fail nondeterministically.  A write to or read from a no-access *)
(* page terminates the process (pc = "fault").                             *)
(***************************************************************************)
EXTENDS Integers, Sequences, FiniteSets, TLC

(* ------------------------------ bounds -------------------------------- *)
MaxCap == 2                 \* largest capacity a caller asks for
NumAddr == 2                \* heap addresses the allocator can hand out
WordBits == 4               \* width of size_t in the model

(* ------------------------ program constants --------------------------- *)
SECURE_SUCCESS == 0
SECURE_ERR_NULL_PTR == -1
SECURE_ERR_ALLOC_FAILED == -2
SECURE_ERR_LOCK_FAILED == -3
SECURE_ERR_PROTECT_FAILED == -4
SECURE_ERR_INVALID_SIZE == -5
NULL == 0
PAGE_READWRITE == "READWRITE"
PAGE_NOACCESS == "NOACCESS"
UNMAPPED == "UNMAPPED"

WordMod == 2 ^ WordBits
get_page_size == 2

Byte == {0, 1}               \* byte values: zero and non-zero
Addr == 1..NumAddr
Threads == {1, 2}
Slots == {1, 2}
SerialThreads == {1}        \* the threads of the serialized caller
SerialSlots == {1}          \* the handle variables of the serialized caller
MaxLen == MaxCap + 1        \* lengths 0..MaxLen: zero, within, over capacity

VARIABLES
    obj,      \* heap: per address the handle structure and its data block
    slot,     \* the callers' handle variables (NULL, live or dangling)
    pc,       \* per thread: position inside the current call
    call,     \* per thread: arguments and locals of the current/last call
    src,      \* per thread: the caller's data passed to Store
    buf,      \* per thread: the caller's buffer passed to Retrieve
    result,   \* per thread: the code produced inside the core
    retval,   \* per thread: what the called function returned to the caller
    stored    \* per address, history: bytes of the last Store that
              \* returned success, <<>> when a later Store copied

vars == <<obj, slot, pc, call, src, buf, result, retval, stored>>

(* ------------------------------ helpers ------------------------------- *)
\* struct secure_memory_t together with the block mem->data points to
FreeObj ==
    [live |-> FALSE, size |-> 0, page_size |-> 0, data |-> FALSE,
     bytes |-> <<>>, prot |-> UNMAPPED, pinned |-> FALSE]

NoCall ==
    [op |-> "none", api |-> "core", s |-> 0, h |-> NULL, ptr |-> FALSE,
     len |-> 0, mem |-> NULL]

\* ((size + page_size - 1) / page_size) * page_size in size_t arithmetic
AlignedSize(size, page_size) ==
    ((((size + page_size - 1) % WordMod) \div page_size) * page_size) % WordMod

\* variant: the allow_access flag is ignored and access is always granted
set_memory_protection_always_rw(o, size, allow_access, ok) ==
    IF ok /\ size > 0
    THEN [o EXCEPT !.prot = PAGE_READWRITE]
    ELSE o

\* mprotect / VirtualProtect over the block; a refused call changes nothing
set_memory_protection(o, size, allow_access, ok) ==
    IF ok /\ size > 0
    THEN [o EXCEPT !.prot = IF allow_access THEN PAGE_READWRITE ELSE PAGE_NOACCESS]
    ELSE o

\* variant: a refused protection change is not reported
protect_result_swallowed(ok) == SECURE_SUCCESS

\* variant: a refused protection change is reported as a refused pin
protect_result_as_lock(ok) ==
    IF ok THEN SECURE_SUCCESS ELSE SECURE_ERR_LOCK_FAILED

\* the code set_memory_protection returns
protect_result(ok) ==
    IF ok THEN SECURE_SUCCESS ELSE SECURE_ERR_PROTECT_FAILED

\* variant: the pin call reports success without pinning anything
lock_memory_not_pinned(o, size, ok) == o

\* mlock / VirtualLock (+ madvise, whose outcome is ignored)
lock_memory(o, size, ok) ==
    IF ok THEN [o EXCEPT !.pinned = TRUE] ELSE o

\* variant: a refused pin is reported as a failed allocation
lock_result_as_alloc(ok) ==
    IF ok THEN SECURE_SUCCESS ELSE SECURE_ERR_ALLOC_FAILED

\* the code lock_memory returns
lock_result(ok) ==
    IF ok THEN SECURE_SUCCESS ELSE SECURE_ERR_LOCK_FAILED

\* munlock / VirtualUnlock
unlock_memory(o, size) == [o EXCEPT !.pinned = FALSE]

\* free(mem->data) / VirtualFree
free_data(o) == [o EXCEPT !.data = FALSE, !.bytes = <<>>, !.prot = UNMAPPED]

\* free(mem)
free_handle(o) == [o EXCEPT !.live = FALSE, !.size = 0, !.page_size = 0]

\* secure_zero(ptr, size): the first size bytes of the block become zero
secure_zero(bytes, size) ==
    [i \in 1..Len(bytes) |-> IF i <= size THEN 0 ELSE bytes[i]]

\* variant: a terminator-driven copy that stops after the first zero byte
memcpy_until_zero(dst, from, length) ==
    [i \in 1..Len(dst) |->
        IF i <= length /\ i <= Len(from) /\ (\A j \in 1..(i - 1) : from[j] # 0)
        THEN from[i] ELSE dst[i]]

\* variant: a padding copy that clears what lies behind the copied bytes
memcpy_zero_padded(dst, from, length) ==
    [i \in 1..Len(dst) |-> IF i <= length /\ i <= Len(from) THEN from[i] ELSE 0]

\* memcpy(dst, from, length)
memcpy(dst, from, length) ==
    [i \in 1..Len(dst) |-> IF i <= length /\ i <= Len(from) THEN from[i] ELSE dst[i]]

\* variant: the allocator hands out storage without regard to its use,
\* as one static block would be
FreeAddrs_static == Addr

\* malloc / posix_memalign hand out the lowest address not in use
FreeAddrs == {a \in Addr : ~obj[a].live /\ ~obj[a].data}
LowestFree == CHOOSE a \in FreeAddrs : \A b \in FreeAddrs : a <= b

\* a handle that refers to a region that has not been destroyed
Live(h) == IF h = NULL THEN FALSE ELSE obj[h].live
\* what a contract-abiding caller passes as a handle: NULL or a live region
Usable(h) == IF h = NULL THEN TRUE ELSE obj[h].live

NoFault == \A t \in Threads : pc[t] # "fault"
Idle(t) == pc[t] = "idle"

\* what the public function hands back: lseco_create returns the handle
\* (NULL on every failure), every other function returns the code
Returned(api, op, code, mem) ==
    IF api = "ffi" /\ op = "create"
    THEN (IF code = SECURE_SUCCESS THEN mem ELSE NULL)
    ELSE code

(* ------------------------------- Init --------------------------------- *)
Init ==
    /\ obj = [a \in Addr |-> FreeObj]
    /\ slot = [s \in Slots |-> NULL]
    /\ pc = [t \in Threads |-> "idle"]
    /\ call = [t \in Threads |-> NoCall]
    /\ src = [t \in Threads |-> <<>>]
    /\ buf = [t \in Threads |-> <<>>]
    /\ result = [t \in Threads |-> SECURE_SUCCESS]
    /\ retval = [t \in Threads |-> SECURE_SUCCESS]
    /\ stored = [a \in Addr |-> <<>>]

(* ------------------------------ Create -------------------------------- *)
\* A call ends: the code goes to the caller; `handle = lseco_create(...)`
\* assigns the caller's variable.
CreateReturn(t, c, code, newslot) ==
    /\ pc' = [pc EXCEPT ![t] = "idle"]
    /\ call' = [call EXCEPT ![t] = c]
    /\ result' = [result EXCEPT ![t] = code]
    /\ retval' = [retval EXCEPT ![t] = Returned(c.api, "create", code, c.mem)]
    /\ slot' = newslot

\* slot after a failed create: untouched through the core, NULL through
\* the wrapper (the caller assigns the returned NULL)
SlotAfterFail(c) ==
    IF c.api = "ffi" THEN [slot EXCEPT ![c.s] = NULL] ELSE slot

\* variant: a zero size is not rejected
create_check_zero_allowed(api, s, size) ==
    IF s = 0 THEN SECURE_ERR_NULL_PTR ELSE SECURE_SUCCESS

\* the input validation of lseco_create (size) and secure_memory_create
\* (handle pointer, then size); s = 0 is an absent handle pointer
create_check(api, s, size) ==
    IF api = "ffi" /\ size = 0 THEN SECURE_ERR_INVALID_SIZE
    ELSE IF s = 0 THEN SECURE_ERR_NULL_PTR
    ELSE IF size = 0 THEN SECURE_ERR_INVALID_SIZE
    ELSE SECURE_SUCCESS

\* secure_memory_create(handle, size) / lseco_create(size): validation
CreateCall(t, api, s, size) ==
    /\ NoFault /\ Idle(t)
    /\ IF s = 0 THEN TRUE ELSE ~Live(slot[s])
    /\ api = "ffi" => s # 0
    /\ LET c == [NoCall EXCEPT !.op = "create", !.api = api, !.s = s, !.len = size]
       IN  /\ src' = [src EXCEPT ![t] = <<>>]
           /\ buf' = [buf EXCEPT ![t] = <<>>]
           /\ UNCHANGED <<obj, stored>>
           /\ IF create_check(api, s, size) = SECURE_ERR_NULL_PTR
              THEN CreateReturn(t, c, SECURE_ERR_NULL_PTR, slot)
              ELSE IF create_check(api, s, size) # SECURE_SUCCESS
              THEN CreateReturn(t, c, create_check(api, s, size), SlotAfterFail(c))
              ELSE /\ pc' = [pc EXCEPT ![t] = "create_malloc"]
                   /\ call' = [call EXCEPT ![t] = c]
                   /\ UNCHANGED <<slot, result, retval>>

\* malloc(sizeof(secure_memory_t)); mem->size, mem->page_size
CreateMalloc(t, ok) ==
    /\ NoFault /\ pc[t] = "create_malloc"
    /\ UNCHANGED <<src, buf, stored>>
    /\ IF ok /\ FreeAddrs # {}
       THEN LET a == LowestFree IN
            /\ obj' = [obj EXCEPT ![a] =
                         [FreeObj EXCEPT !.live = TRUE, !.size = call[t].len,
                                         !.page_size = get_page_size]]
            /\ call' = [call EXCEPT ![t].mem = a]
            /\ pc' = [pc EXCEPT ![t] = "create_alloc"]
            /\ UNCHANGED <<slot, result, retval>>
       ELSE /\ UNCHANGED obj
            /\ CreateReturn(t, call[t], SECURE_ERR_ALLOC_FAILED, SlotAfterFail(call[t]))

\* posix_memalign / VirtualAlloc of aligned_size bytes, contents arbitrary
CreateAlloc(t, ok) ==
    /\ NoFault /\ pc[t] = "create_alloc"
    /\ UNCHANGED <<src, buf, stored>>
    /\ LET a == call[t].mem
           aligned_size == AlignedSize(obj[a].size, obj[a].page_size)
       IN  IF ok
           THEN /\ \E init \in [1..aligned_size -> Byte] :
                      obj' = [obj EXCEPT ![a] =
                                [@ EXCEPT !.data = TRUE, !.bytes = init,
                                          !.prot = PAGE_READWRITE]]
                /\ pc' = [pc EXCEPT ![t] = "create_lock"]
                /\ UNCHANGED <<slot, call, result, retval>>
           ELSE /\ obj' = [obj EXCEPT ![a] = free_handle(@)]
                /\ CreateReturn(t, call[t], SECURE_ERR_ALLOC_FAILED, SlotAfterFail(call[t]))

\* lock_memory(mem->data, aligned_size), unwinding on failure
CreateLock(t, ok) ==
    /\ NoFault /\ pc[t] = "create_lock"
    /\ UNCHANGED <<src, buf, stored>>
    /\ LET a == call[t].mem
           aligned_size == AlignedSize(obj[a].size, obj[a].page_size)
           locked == lock_memory(obj[a], aligned_size, ok)
       IN  IF lock_result(ok) = SECURE_SUCCESS
           THEN /\ obj' = [obj EXCEPT ![a] = locked]
                /\ pc' = [pc EXCEPT ![t] = "create_protect"]
                /\ UNCHANGED <<slot, call, result, retval>>
           ELSE /\ obj' = [obj EXCEPT ![a] = free_handle(free_data(locked))]
                /\ CreateReturn(t, call[t], lock_result(ok), SlotAfterFail(call[t]))

\* variant: the block is released without being unpinned first
CreateUnwindProtect_no_unlock(o, aligned_size) ==
    free_handle(free_data(o))

\* the unwinding of a failed set-no-access: unlock, free data, free handle
CreateUnwindProtect(o, aligned_size) ==
    free_handle(free_data(unlock_memory(o, aligned_size)))

\* set_memory_protection(mem->data, aligned_size, 0); *handle = mem
CreateProtect(t, ok) ==
    /\ NoFault /\ pc[t] = "create_protect"
    /\ UNCHANGED <<src, buf, stored>>
    /\ LET a == call[t].mem
           aligned_size == AlignedSize(obj[a].size, obj[a].page_size)
           prot == set_memory_protection(obj[a], aligned_size, FALSE, ok)
       IN  IF protect_result(ok) = SECURE_SUCCESS
           THEN /\ obj' = [obj EXCEPT ![a] = prot]
                /\ CreateReturn(t, call[t], SECURE_SUCCESS,
                                [slot EXCEPT ![call[t].s] = a])
           ELSE /\ obj' = [obj EXCEPT ![a] = CreateUnwindProtect(prot, aligned_size)]
                /\ CreateReturn(t, call[t], protect_result(ok),
                                SlotAfterFail(call[t]))

(* ----------------------- Store and Retrieve --------------------------- *)
\* variant: a zero length is reported as an absent pointer
lseco_check_zero_as_null(h, ptr, length) ==
    IF h = NULL THEN SECURE_ERR_NULL_PTR
    ELSE IF ~ptr THEN SECURE_ERR_NULL_PTR
    ELSE IF length = 0 THEN SECURE_ERR_NULL_PTR
    ELSE SECURE_SUCCESS

\* variant: the length is checked before the handle and the pointer
lseco_check_size_first(h, ptr, length) ==
    IF length = 0 THEN SECURE_ERR_INVALID_SIZE
    ELSE IF h = NULL THEN SECURE_ERR_NULL_PTR
    ELSE IF ~ptr THEN SECURE_ERR_NULL_PTR
    ELSE SECURE_SUCCESS

\* the argument checks of lseco_store / lseco_retrieve, made before the
\* core is entered; SECURE_SUCCESS means "pass the call on"
lseco_check(h, ptr, length) ==
    IF h = NULL THEN SECURE_ERR_NULL_PTR
    ELSE IF ~ptr THEN SECURE_ERR_NULL_PTR
    ELSE IF length = 0 THEN SECURE_ERR_INVALID_SIZE
    ELSE SECURE_SUCCESS

\* variant: the upper bound on length is not checked
core_check_no_upper_bound(h, ptr, length) ==
    IF h = NULL \/ ~ptr THEN SECURE_ERR_NULL_PTR
    ELSE IF length = 0 THEN SECURE_ERR_INVALID_SIZE
    ELSE SECURE_SUCCESS

\* variant: the length is checked before the pointers
core_check_size_first(h, ptr, length) ==
    IF length = 0 THEN SECURE_ERR_INVALID_SIZE
    ELSE IF h = NULL \/ ~ptr THEN SECURE_ERR_NULL_PTR
    ELSE IF length > obj[h].size THEN SECURE_ERR_INVALID_SIZE
    ELSE SECURE_SUCCESS

\* variant: a zero length is reported as an absent pointer
core_check_zero_as_null(h, ptr, length) ==
    IF h = NULL \/ ~ptr \/ length = 0 THEN SECURE_ERR_NULL_PTR
    ELSE IF length > obj[h].size THEN SECURE_ERR_INVALID_SIZE
    ELSE SECURE_SUCCESS

\* the input validation of secure_memory_write / secure_memory_read
core_check(h, ptr, length) ==
    IF h = NULL \/ ~ptr THEN SECURE_ERR_NULL_PTR
    ELSE IF length = 0 \/ length > obj[h].size THEN SECURE_ERR_INVALID_SIZE
    ELSE SECURE_SUCCESS

\* the code a Store/Retrieve call is rejected with, SECURE_SUCCESS if none
ArgCheck(api, h, ptr, length) ==
    IF api = "ffi" /\ lseco_check(h, ptr, length) # SECURE_SUCCESS
    THEN lseco_check(h, ptr, length)
    ELSE core_check(h, ptr, length)

\* return of a function whose result is its int code
Return(t, code) ==
    /\ pc' = [pc EXCEPT ![t] = "idle"]
    /\ result' = [result EXCEPT ![t] = code]
    /\ retval' = [retval EXCEPT ![t] = code]
    /\ src' = [src EXCEPT ![t] = <<>>]

\* secure_memory_write(handle, data, length) / lseco_store: validation
WriteCall(t, api, h, ptr, length, data) ==
    /\ NoFault /\ Idle(t)
    /\ Usable(h)
    /\ Len(data) = (IF ptr THEN length ELSE 0)
    /\ call' = [call EXCEPT ![t] =
                  [NoCall EXCEPT !.op = "write", !.api = api, !.h = h,
                                 !.ptr = ptr, !.len = length]]
    /\ buf' = [buf EXCEPT ![t] = <<>>]
    /\ UNCHANGED <<obj, slot, stored>>
    /\ IF ArgCheck(api, h, ptr, length) # SECURE_SUCCESS
       THEN Return(t, ArgCheck(api, h, ptr, length))
       ELSE /\ pc' = [pc EXCEPT ![t] = "write_grant"]
            /\ src' = [src EXCEPT ![t] = data]
            /\ UNCHANGED <<result, retval>>

\* set_memory_protection(handle->data, aligned_size, 1)
WriteGrant(t, ok) ==
    /\ NoFault /\ pc[t] = "write_grant"
    /\ LET h == call[t].h
           aligned_size == AlignedSize(obj[h].size, obj[h].page_size)
       IN  obj' = [obj EXCEPT ![h] = set_memory_protection(@, aligned_size, TRUE, ok)]
    /\ UNCHANGED <<slot, call, buf, stored>>
    /\ IF protect_result(ok) = SECURE_SUCCESS
       THEN /\ pc' = [pc EXCEPT ![t] = "write_copy"]
            /\ UNCHANGED <<src, result, retval>>
       ELSE Return(t, protect_result(ok))

\* memcpy(handle->data, data, length); a no-access page faults
WriteCopy(t) ==
    /\ NoFault /\ pc[t] = "write_copy"
    /\ UNCHANGED <<slot, call, src, buf, result, retval>>
    /\ LET h == call[t].h IN
       IF obj[h].prot = PAGE_READWRITE
       THEN /\ obj' = [obj EXCEPT ![h].bytes = memcpy(@, src[t], call[t].len)]
            /\ stored' = [stored EXCEPT ![h] = <<>>]
            /\ pc' = [pc EXCEPT ![t] = "write_revoke"]
       ELSE /\ pc' = [pc EXCEPT ![t] = "fault"]
            /\ UNCHANGED <<obj, stored>>

\* set_memory_protection(handle->data, aligned_size, 0) and return
WriteRevoke(t, ok) ==
    /\ NoFault /\ pc[t] = "write_revoke"
    /\ LET h == call[t].h
           aligned_size == AlignedSize(obj[h].size, obj[h].page_size)
       IN  /\ obj' = [obj EXCEPT ![h] = set_memory_protection(@, aligned_size, FALSE, ok)]
           /\ stored' = [stored EXCEPT ![h] =
                          IF protect_result(ok) = SECURE_SUCCESS THEN src[t] ELSE <<>>]
    /\ UNCHANGED <<slot, call, buf>>
    /\ Return(t, protect_result(ok))

\* secure_memory_read(handle, buffer, length) / lseco_retrieve: validation;
\* the caller's buffer holds `length` bytes of one fill value beforehand
ReadCall(t, api, h, ptr, length, fill) ==
    /\ NoFault /\ Idle(t)
    /\ Usable(h)
    /\ call' = [call EXCEPT ![t] =
                  [NoCall EXCEPT !.op = "read", !.api = api, !.h = h,
                                 !.ptr = ptr, !.len = length]]
    /\ buf' = [buf EXCEPT ![t] = IF ptr THEN [i \in 1..length |-> fill] ELSE <<>>]
    /\ UNCHANGED <<obj, slot, stored>>
    /\ IF ArgCheck(api, h, ptr, length) # SECURE_SUCCESS
       THEN Return(t, ArgCheck(api, h, ptr, length))
       ELSE /\ pc' = [pc EXCEPT ![t] = "read_grant"]
            /\ UNCHANGED <<src, result, retval>>

\* set_memory_protection(mutable_handle->data, aligned_size, 1)
ReadGrant(t, ok) ==
    /\ NoFault /\ pc[t] = "read_grant"
    /\ LET h == call[t].h
           aligned_size == AlignedSize(obj[h].size, obj[h].page_size)
       IN  obj' = [obj EXCEPT ![h] = set_memory_protection(@, aligned_size, TRUE, ok)]
    /\ UNCHANGED <<slot, call, buf, stored>>
    /\ IF protect_result(ok) = SECURE_SUCCESS
       THEN /\ pc' = [pc EXCEPT ![t] = "read_copy"]
            /\ UNCHANGED <<src, result, retval>>
       ELSE Return(t, protect_result(ok))

\* memcpy(buffer, handle->data, length); a no-access page faults
ReadCopy(t) ==
    /\ NoFault /\ pc[t] = "read_copy"
    /\ UNCHANGED <<obj, slot, call, src, result, retval, stored>>
    /\ LET h == call[t].h IN
       IF obj[h].prot = PAGE_READWRITE
       THEN /\ buf' = [buf EXCEPT ![t] = memcpy(@, obj[h].bytes, call[t].len)]
            /\ pc' = [pc EXCEPT ![t] = "read_revoke"]
       ELSE /\ pc' = [pc EXCEPT ![t] = "fault"]
            /\ UNCHANGED buf

\* set_memory_protection(mutable_handle->data, aligned_size, 0) and return
ReadRevoke(t, ok) ==
    /\ NoFault /\ pc[t] = "read_revoke"
    /\ LET h == call[t].h
           aligned_size == AlignedSize(obj[h].size, obj[h].page_size)
       IN  obj' = [obj EXCEPT ![h] = set_memory_protection(@, aligned_size, FALSE, ok)]
    /\ UNCHANGED <<slot, call, buf, stored>>
    /\ Return(t, protect_result(ok))

(* ------------------------------ GetSize ------------------------------- *)
\* variant: the size of the backing block is reported
secure_memory_get_size_aligned(h) ==
    IF h = NULL THEN 0 ELSE AlignedSize(obj[h].size, obj[h].page_size)

\* variant: an absent handle is reported as an error code
secure_memory_get_size_null_error(h) ==
    IF h = NULL THEN SECURE_ERR_NULL_PTR ELSE obj[h].size

\* secure_memory_get_size(handle) / lseco_get_size(handle)
secure_memory_get_size(h) == IF h = NULL THEN 0 ELSE obj[h].size

GetSize(t, api, h) ==
    /\ NoFault /\ Idle(t)
    /\ Usable(h)
    /\ call' = [call EXCEPT ![t] =
                  [NoCall EXCEPT !.op = "get_size", !.api = api, !.h = h]]
    /\ buf' = [buf EXCEPT ![t] = <<>>]
    /\ UNCHANGED <<obj, slot, stored>>
    /\ Return(t, IF api = "ffi" /\ h = NULL THEN 0 ELSE secure_memory_get_size(h))

(* ------------------------------ Destroy ------------------------------- *)
\* secure_memory_destroy(&handle) / lseco_destroy(handle): s = 0 is an
\* absent handle pointer (core) or a NULL handle (wrapper)
DestroyCall(t, api, s) ==
    /\ NoFault /\ Idle(t)
    /\ LET h == IF s = 0 THEN NULL ELSE slot[s] IN
       /\ Usable(h)
       /\ call' = [call EXCEPT ![t] =
                     [NoCall EXCEPT !.op = "destroy", !.api = api, !.s = s,
                                    !.h = h, !.mem = h]]
       /\ buf' = [buf EXCEPT ![t] = <<>>]
       /\ UNCHANGED <<obj, slot, stored>>
       /\ IF h = NULL
          THEN Return(t, SECURE_SUCCESS)
          ELSE /\ pc' = [pc EXCEPT ![t] = "destroy_grant"]
               /\ UNCHANGED <<src, result, retval>>

\* set_memory_protection(mem->data, aligned_size, 1), result ignored
DestroyGrant(t, ok) ==
    /\ NoFault /\ pc[t] = "destroy_grant"
    /\ LET a == call[t].mem
           aligned_size == AlignedSize(obj[a].size, obj[a].page_size)
       IN  obj' = [obj EXCEPT ![a] = set_memory_protection(@, aligned_size, TRUE, ok)]
    /\ pc' = [pc EXCEPT ![t] = "destroy_zero"]
    /\ UNCHANGED <<slot, call, src, buf, result, retval, stored>>

\* variant: only the capacity bytes are zeroed
DestroyZeroExtent_capacity(o) == o.size

\* the extent Destroy zeroes: aligned_size bytes
DestroyZeroExtent(o) == AlignedSize(o.size, o.page_size)

\* secure_zero(mem->data, aligned_size); a no-access page faults
DestroyZero(t) ==
    /\ NoFault /\ pc[t] = "destroy_zero"
    /\ UNCHANGED <<slot, call, src, buf, result, retval, stored>>
    /\ LET a == call[t].mem IN
       IF obj[a].prot = PAGE_READWRITE
       THEN /\ obj' = [obj EXCEPT ![a].bytes = secure_zero(@, DestroyZeroExtent(obj[a]))]
            /\ pc' = [pc EXCEPT ![t] = "destroy_unlock"]
       ELSE /\ pc' = [pc EXCEPT ![t] = "fault"]
            /\ UNCHANGED obj

\* unlock_memory(mem->data, aligned_size)
DestroyUnlock(t) ==
    /\ NoFault /\ pc[t] = "destroy_unlock"
    /\ LET a == call[t].mem
           aligned_size == AlignedSize(obj[a].size, obj[a].page_size)
       IN  obj' = [obj EXCEPT ![a] = unlock_memory(@, aligned_size)]
    /\ pc' = [pc EXCEPT ![t] = "destroy_free_data"]
    /\ UNCHANGED <<slot, call, src, buf, result, retval, stored>>

\* free(mem->data) / VirtualFree
DestroyFreeData(t) ==
    /\ NoFault /\ pc[t] = "destroy_free_data"
    /\ obj' = [obj EXCEPT ![call[t].mem] = free_data(@)]
    /\ pc' = [pc EXCEPT ![t] = "destroy_free_handle"]
    /\ UNCHANGED <<slot, call, src, buf, result, retval, stored>>

\* variant: the caller's handle variable is never cleared
SlotAfterDestroy_kept(c) == slot

\* *handle = NULL: through the core the caller's variable, through
\* lseco_destroy only the wrapper's local copy
SlotAfterDestroy(c) ==
    IF c.api = "core" THEN [slot EXCEPT ![c.s] = NULL] ELSE slot

\* free(mem); *handle = NULL
DestroyFreeHandle(t) ==
    /\ NoFault /\ pc[t] = "destroy_free_handle"
    /\ obj' = [obj EXCEPT ![call[t].mem] = free_handle(@)]
    /\ stored' = [stored EXCEPT ![call[t].mem] = <<>>]
    /\ slot' = SlotAfterDestroy(call[t])
    /\ call' = [call EXCEPT ![t].mem = NULL]
    /\ UNCHANGED buf
    /\ Return(t, SECURE_SUCCESS)

\* a handle value whose region has been destroyed
Dangling(h) == IF h = NULL THEN FALSE ELSE ~obj[h].live

\* secure_memory_destroy(&handle) / lseco_destroy(handle) on a handle the
\* caller kept after lseco_destroy: the freed structure is read and its
\* blocks are released a second time, which the allocator either detects
\* (the process is aborted) or does not
DestroyDangling(t, api, s, crash) ==
    /\ NoFault /\ Idle(t)
    /\ s # 0 /\ Dangling(slot[s])
    /\ LET c == [NoCall EXCEPT !.op = "destroy", !.api = api, !.s = s,
                               !.h = slot[s]] IN
       /\ call' = [call EXCEPT ![t] = c]
       /\ buf' = [buf EXCEPT ![t] = <<>>]
       /\ UNCHANGED <<obj, stored>>
       /\ IF crash
          THEN /\ pc' = [pc EXCEPT ![t] = "fault"]
               /\ UNCHANGED <<slot, src, result, retval>>
          ELSE /\ slot' = SlotAfterDestroy(c)
               /\ Return(t, SECURE_SUCCESS)

(* ---------------------------- specification --------------------------- *)
Apis == {"core", "ffi"}
ByteSeqs(n) == [1..n -> Byte]
\* the handle values a contract-abiding caller passes: NULL or its handle
HandleArgs == {NULL} \cup {slot[s] : s \in SerialSlots}

Next ==
    \E t \in SerialThreads :
        \/ \E api \in Apis, s \in SerialSlots \cup {0}, size \in 0..MaxCap :
              CreateCall(t, api, s, size)
        \/ \E ok \in BOOLEAN : CreateMalloc(t, ok)
        \/ \E ok \in BOOLEAN : CreateAlloc(t, ok)
        \/ \E ok \in BOOLEAN : CreateLock(t, ok)
        \/ \E ok \in BOOLEAN : CreateProtect(t, ok)
        \/ \E api \in Apis, h \in HandleArgs, ptr \in BOOLEAN, length \in 0..MaxLen :
              \E data \in ByteSeqs(IF ptr THEN length ELSE 0) :
                 WriteCall(t, api, h, ptr, length, data)
        \/ \E ok \in BOOLEAN : WriteGrant(t, ok)
        \/ WriteCopy(t)
        \/ \E ok \in BOOLEAN : WriteRevoke(t, ok)
        \/ \E api \in Apis, h \in HandleArgs, ptr \in BOOLEAN, length \in 0..MaxLen,
              fill \in Byte : ReadCall(t, api, h, ptr, length, fill)
        \/ \E ok \in BOOLEAN : ReadGrant(t, ok)
        \/ ReadCopy(t)
        \/ \E ok \in BOOLEAN : ReadRevoke(t, ok)
        \/ \E api \in Apis, h \in HandleArgs : GetSize(t, api, h)
        \/ \E api \in Apis, s \in SerialSlots \cup {0} : DestroyCall(t, api, s)
        \/ \E ok \in BOOLEAN : DestroyGrant(t, ok)
        \/ DestroyZero(t)
        \/ DestroyUnlock(t)
        \/ DestroyFreeData(t)
        \/ DestroyFreeHandle(t)

Spec == Init /\ [][Next]_vars

\* the callers of Spec and, in addition, a caller that destroys again a
\* handle it kept after lseco_destroy
NextReuse ==
    \/ Next
    \/ \E t \in SerialThreads, api \in Apis, s \in SerialSlots, crash \in BOOLEAN :
          DestroyDangling(t, api, s, crash)

SpecReuse == Init /\ [][NextReuse]_vars

(* --------------------------- two regions ------------------------------ *)
\* the capacity of the regions of the two-thread specification
ParCap == 1

\* thread t creates, uses and destroys the region of its own handle
\* variable, slot[t], through the core, while the other thread does the
\* same with its own; the steps of the two interleave
NextPar ==
    \E t \in Threads :
        \/ CreateCall(t, "core", t, ParCap)
        \/ \E ok \in BOOLEAN : CreateMalloc(t, ok)
        \/ \E ok \in BOOLEAN : CreateAlloc(t, ok)
        \/ \E ok \in BOOLEAN : CreateLock(t, ok)
        \/ \E ok \in BOOLEAN : CreateProtect(t, ok)
        \/ \E data \in ByteSeqs(ParCap) :
              WriteCall(t, "core", slot[t], TRUE, ParCap, data)
        \/ \E ok \in BOOLEAN : WriteGrant(t, ok)
        \/ WriteCopy(t)
        \/ \E ok \in BOOLEAN : WriteRevoke(t, ok)
        \/ \E fill \in Byte : ReadCall(t, "core", slot[t], TRUE, ParCap, fill)
        \/ \E ok \in BOOLEAN : ReadGrant(t, ok)
        \/ ReadCopy(t)
        \/ \E ok \in BOOLEAN : ReadRevoke(t, ok)
        \/ GetSize(t, "core", slot[t])
        \/ DestroyCall(t, "core", t)
        \/ \E ok \in BOOLEAN : DestroyGrant(t, ok)
        \/ DestroyZero(t)
        \/ DestroyUnlock(t)
        \/ DestroyFreeData(t)
        \/ DestroyFreeHandle(t)

SpecPar == Init /\ [][NextPar]_vars

(* ------------------------ one region, two threads --------------------- *)
\* the capacity of the region the two threads share, and the length of
\* their transfers
SharedCap == 2

\* a thread other than t has called Store on the region of thread t's
\* transfer and is at its memcpy
WritersAtCopy(t) ==
    {u \in Threads \ {t} : pc[u] = "write_copy" /\ call[u].h = call[t].h}

\* the memcpy of thread t's Store and the memcpy of thread u's Store run at
\* the same time on the same bytes (a data race): a byte both write ends
\* up as either's, mine being the positions where t's byte is the later
WriteCopyTorn(t, u, mine) ==
    /\ NoFault /\ pc[t] = "write_copy"
    /\ u \in WritersAtCopy(t)
    /\ obj[call[t].h].prot = PAGE_READWRITE
    /\ UNCHANGED <<slot, call, src, buf, result, retval>>
    /\ LET h == call[t].h
           first == memcpy(obj[h].bytes, src[u], call[u].len)
           both == memcpy(first, src[t], call[t].len)
       IN  obj' = [obj EXCEPT ![h].bytes =
                     [i \in 1..Len(both) |->
                         IF i <= call[u].len /\ i \notin mine
                         THEN first[i] ELSE both[i]]]
    /\ stored' = [stored EXCEPT ![call[t].h] = <<>>]
    /\ pc' = [pc EXCEPT ![t] = "write_revoke", ![u] = "write_revoke"]

\* the memcpy of thread t's Retrieve runs at the same time as the memcpy of
\* thread u's Store: the buffer gets, byte by byte, what was there before
\* or what u writes, fresh being the positions read after u's write
ReadCopyTorn(t, u, fresh) ==
    /\ NoFault /\ pc[t] = "read_copy"
    /\ u \in WritersAtCopy(t)
    /\ obj[call[t].h].prot = PAGE_READWRITE
    /\ UNCHANGED <<slot, call, src, result, retval>>
    /\ LET h == call[t].h
           written == memcpy(obj[h].bytes, src[u], call[u].len)
           old == memcpy(buf[t], obj[h].bytes, call[t].len)
           new == memcpy(buf[t], written, call[t].len)
       IN  /\ obj' = [obj EXCEPT ![h].bytes = written]
           /\ buf' = [buf EXCEPT ![t] =
                        [i \in 1..Len(old) |->
                            IF i \in fresh THEN new[i] ELSE old[i]]]
    /\ stored' = [stored EXCEPT ![call[t].h] = <<>>]
    /\ pc' = [pc EXCEPT ![t] = "read_revoke", ![u] = "write_revoke"]

\* thread 1 creates the region of slot 1; both threads then Store to it and
\* Retrieve from it with no serialization, their steps interleaving
NextShared ==
    \/ CreateCall(1, "core", 1, SharedCap)
    \/ \E ok \in BOOLEAN : CreateMalloc(1, ok)
    \/ \E ok \in BOOLEAN : CreateAlloc(1, ok)
    \/ \E ok \in BOOLEAN : CreateLock(1, ok)
    \/ \E ok \in BOOLEAN : CreateProtect(1, ok)
    \/ \E t \in Threads :
          \/ \E data \in ByteSeqs(SharedCap) :
                WriteCall(t, "core", slot[1], TRUE, SharedCap, data)
          \/ \E ok \in BOOLEAN : WriteGrant(t, ok)
          \/ WriteCopy(t)
          \/ \E u \in Threads, mine \in SUBSET (1..SharedCap) :
                WriteCopyTorn(t, u, mine)
          \/ \E ok \in BOOLEAN : WriteRevoke(t, ok)
          \/ \E fill \in Byte :
                ReadCall(t, "core", slot[1], TRUE, SharedCap, fill)
          \/ \E ok \in BOOLEAN : ReadGrant(t, ok)
          \/ ReadCopy(t)
          \/ \E u \in Threads, fresh \in SUBSET (1..SharedCap) :
                ReadCopyTorn(t, u, fresh)
          \/ \E ok \in BOOLEAN : ReadRevoke(t, ok)

SpecShared == Init /\ [][NextShared]_vars

(* ------------------------- the size computation ------------------------ *)
\* the page sizes a platform reports: powers of two below the word range
PageSizes == {2 ^ k : k \in 1..(WordBits - 1)}

\* the handle structure as secure_memory_create fills it in for any
\* capacity > 0 of the machine word: mem->size, mem->page_size
InitAlign ==
    /\ \E size \in 1..(WordMod - 1), page_size \in PageSizes :
          obj = [a \in Addr |->
                   IF a = 1
                   THEN [FreeObj EXCEPT !.live = TRUE, !.size = size,
                                        !.page_size = page_size]
                   ELSE FreeObj]
    /\ slot = [s \in Slots |-> NULL]
    /\ pc = [t \in Threads |-> IF t \in SerialThreads THEN "align_create" ELSE "idle"]
    /\ call = [t \in Threads |->
                IF t \in SerialThreads THEN [NoCall EXCEPT !.mem = 1] ELSE NoCall]
    /\ src = [t \in Threads |-> <<>>]
    /\ buf = [t \in Threads |-> <<>>]
    /\ result = [t \in Threads |-> SECURE_SUCCESS]
    /\ retval = [t \in Threads |-> SECURE_SUCCESS]
    /\ stored = [a \in Addr |-> <<>>]

\* aligned_size as one of the four functions computes it from the fields
\* of the structure; result holds the value just computed
ComputeAligned(t, from, to) ==
    /\ pc[t] = from
    /\ pc' = [pc EXCEPT ![t] = to]
    /\ result' = [result EXCEPT ![t] =
                    AlignedSize(obj[call[t].mem].size, obj[call[t].mem].page_size)]
    /\ UNCHANGED <<obj, slot, call, src, buf, stored>>

\* secure_memory_create: the extent allocated, pinned and protected;
\* retval keeps it for comparison
CreateAligned(t) ==
    /\ ComputeAligned(t, "align_create", "align_write")
    /\ retval' = [retval EXCEPT ![t] =
                    AlignedSize(obj[call[t].mem].size, obj[call[t].mem].page_size)]

\* secure_memory_write: the extent whose protection is changed
WriteAligned(t) ==
    /\ ComputeAligned(t, "align_write", "align_read")
    /\ UNCHANGED retval

\* secure_memory_read: the extent whose protection is changed
ReadAligned(t) ==
    /\ ComputeAligned(t, "align_read", "align_destroy")
    /\ UNCHANGED retval

\* secure_memory_destroy: the extent zeroed and unpinned
DestroyAligned(t) ==
    /\ ComputeAligned(t, "align_destroy", "align_done")
    /\ UNCHANGED retval

NextAlign ==
    \E t \in SerialThreads :
        \/ CreateAligned(t)
        \/ WriteAligned(t)
        \/ ReadAligned(t)
        \/ DestroyAligned(t)

SpecAlign == InitAlign /\ [][NextAlign]_vars

(* ============================== claims ================================ *)
\* the region a finished or running Store/Retrieve of thread t works on
IsTransfer(t) == call[t].op \in {"write", "read"}

(* ------------------------------- C1 ----------------------------------- *)
\* thread t has finished a Retrieve(region, len(b)) on a live region whose
\* last successful Store, with no copying Store since, stored b
RetrievedAfterStore(t) ==
    /\ Idle(t) /\ call[t].op = "read" /\ call[t].ptr
    /\ Live(call[t].h)
    /\ stored[call[t].h] # <<>>
    /\ call[t].len = Len(stored[call[t].h])

\* C1 as stated: after a successful Store(region, b), Retrieve(region,
\* len(b)) returns success and the buffer holds exactly b.
C1_RoundTripAlwaysSucceeds ==
    \A t \in Threads :
        RetrievedAfterStore(t) =>
            /\ retval[t] = SECURE_SUCCESS
            /\ buf[t] = stored[call[t].h]

\* C1 (amended): after a successful Store(region, b), Retrieve(region,
\* len(b)) returns success or SECURE_ERR_PROTECT_FAILED; when it returns
\* success, and whenever its copy step has run, the buffer holds exactly b,
\* zero bytes included.
C1_RoundTrip ==
    \A t \in Threads :
        /\ RetrievedAfterStore(t) =>
              /\ retval[t] \in {SECURE_SUCCESS, SECURE_ERR_PROTECT_FAILED}
              /\ retval[t] = SECURE_SUCCESS => buf[t] = stored[call[t].h]
        /\ ( /\ pc[t] = "read_revoke"
             /\ stored[call[t].h] # <<>>
             /\ call[t].len = Len(stored[call[t].h]) )
           => buf[t] = stored[call[t].h]

\* a round trip of the two bytes 0, 1: a zero byte followed by a non-zero one
C1_Witness ==
    \E t \in Threads :
        /\ RetrievedAfterStore(t)
        /\ retval[t] = SECURE_SUCCESS
        /\ stored[call[t].h] = <<0, 1>>
        /\ buf[t] = <<0, 1>>

(* ------------------------------- C2 ----------------------------------- *)
AllIdle == \A t \in Threads : Idle(t)

\* C2 as stated: whenever no operation is in progress, every live region
\* is no-access.
C2_LockedAtRest ==
    AllIdle => \A a \in Addr : obj[a].live => obj[a].prot = PAGE_NOACCESS

\* the region the last call of thread t created or transferred on
RegionOf(t) == IF call[t].op = "create" THEN call[t].mem ELSE call[t].h

\* at rest after a Create, Store or Retrieve that returned success the
\* region is live and no-access
LockedAfterSuccess ==
    \A t \in Threads :
        ( /\ AllIdle
          /\ call[t].op \in {"create", "write", "read"}
          /\ result[t] = SECURE_SUCCESS )
        => /\ Live(RegionOf(t))
           /\ obj[RegionOf(t)].prot = PAGE_NOACCESS

\* a Store/Retrieve that returns from its re-lock step without the region
\* being no-access returns SECURE_ERR_PROTECT_FAILED and leaves it
\* read-write
RelockFailureExposes ==
    \A t \in Threads :
        ( /\ pc[t] \in {"write_revoke", "read_revoke"}
          /\ pc'[t] = "idle"
          /\ result'[t] # SECURE_SUCCESS )
        => /\ retval'[t] = SECURE_ERR_PROTECT_FAILED
           /\ obj'[call[t].h].live
           /\ obj'[call[t].h].prot = PAGE_READWRITE

\* C2 (amended): immediately after a Create, Store or Retrieve that
\* returned success the region is live and no-access; a Store/Retrieve
\* whose re-lock step is refused returns -4 and leaves the region
\* read-write.
C2_LockedAfterSuccess ==
    []LockedAfterSuccess /\ [][RelockFailureExposes]_vars

\* a Store has returned success and the region is no-access again
C2_Witness ==
    \E t \in Threads :
        /\ AllIdle /\ call[t].op = "write" /\ result[t] = SECURE_SUCCESS
        /\ Live(call[t].h) /\ obj[call[t].h].prot = PAGE_NOACCESS

(* ------------------------------- C3 ----------------------------------- *)
AllZero(bytes) == \A i \in 1..Len(bytes) : bytes[i] = 0

\* C3: Destroy runs grant, zero, unpin, release, invalidate in this order;
\* when the block is unpinned and when it is released every byte of the
\* backing_size extent is zero.
C3_ZeroBeforeUnpinAndRelease ==
    \A t \in Threads :
        LET o == obj[call[t].mem] IN
        /\ pc[t] \in {"destroy_grant", "destroy_zero"} =>
              o.live /\ o.data /\ o.pinned
        /\ pc[t] = "destroy_unlock" =>
              /\ o.live /\ o.data /\ o.pinned
              /\ Len(o.bytes) = AlignedSize(o.size, o.page_size)
              /\ AllZero(o.bytes)
        /\ pc[t] = "destroy_free_data" =>
              /\ o.live /\ o.data /\ ~o.pinned
              /\ Len(o.bytes) = AlignedSize(o.size, o.page_size)
              /\ AllZero(o.bytes)
        /\ pc[t] = "destroy_free_handle" =>
              /\ o.live /\ ~o.data /\ ~o.pinned
              /\ call[t].s # 0 => slot[call[t].s] = call[t].mem

\* Destroy is about to unpin a region whose backing extent is larger than
\* its capacity and that held a stored non-zero byte
C3_Witness ==
    \E t \in Threads :
        /\ pc[t] = "destroy_unlock"
        /\ obj[call[t].mem].size < Len(obj[call[t].mem].bytes)
        /\ stored[call[t].mem] = <<1>>
        /\ AllZero(obj[call[t].mem].bytes)

(* ------------------------------- C4 ----------------------------------- *)
\* C4: Destroy never aborts partway and never faults the process, also
\* when its access-grant step fails.
C4_DestroyNeverFaults ==
    \A t \in Threads : call[t].op = "destroy" => pc[t] # "fault"

(* ------------------------------- C5 ----------------------------------- *)
\* thread t returns from Create in this step, from one of its four
\* resource steps, without having created a region
CreateFails(t) ==
    /\ pc[t] \in {"create_malloc", "create_alloc", "create_lock", "create_protect"}
    /\ pc'[t] = "idle"
    /\ result'[t] # SECURE_SUCCESS

\* a region as Create hands it out: allocated, pinned, no-access
FullyInitialized(o) ==
    /\ o.live /\ o.data /\ o.pinned
    /\ o.prot = PAGE_NOACCESS
    /\ Len(o.bytes) = AlignedSize(o.size, o.page_size)

\* C5: a failed Create has released the handle structure and the backing
\* block and unpinned it when it returns, and a handle variable is only
\* ever set to NULL or to a fully initialized region.
C5_FailedCreateUnwinds ==
    [][ \A t \in Threads :
          /\ CreateFails(t) =>
                /\ call'[t].mem # NULL => obj'[call'[t].mem] = FreeObj
                /\ \A a \in Addr \ {call'[t].mem} : obj'[a] = obj[a]
                /\ call'[t].s # 0 =>
                      slot'[call'[t].s] =
                         (IF call'[t].api = "ffi" THEN NULL ELSE slot[call'[t].s])
          /\ \A s \in Slots :
                (slot'[s] # slot[s] /\ slot'[s] # NULL) =>
                    FullyInitialized(obj'[slot'[s]])
      ]_vars

\* Create has returned SECURE_ERR_PROTECT_FAILED after allocating and
\* pinning, and nothing is left allocated or pinned
C5_Witness ==
    \E t \in Threads :
        /\ Idle(t) /\ call[t].op = "create"
        /\ result[t] = SECURE_ERR_PROTECT_FAILED
        /\ call[t].mem # NULL
        /\ obj[call[t].mem] = FreeObj

(* ------------------------------- C6 ----------------------------------- *)
\* thread t makes a Store/Retrieve call in this step (the primed call
\* record holds its arguments)
TransferCalled(t) ==
    /\ pc[t] = "idle"
    /\ call'[t].op \in {"write", "read"}
    /\ <<pc'[t], call'[t], result'[t], retval'[t], buf'[t]>>
          # <<pc[t], call[t], result[t], retval[t], buf[t]>>

\* the call is rejected without touching any region
RejectedWith(t, code) ==
    /\ pc'[t] = "idle"
    /\ retval'[t] = code
    /\ obj' = obj /\ slot' = slot /\ stored' = stored

\* C6 as stated: every Store/Retrieve on a live region with
\* length > capacity fails with SECURE_ERR_INVALID_SIZE before any state
\* change and any protection call.
C6_OverCapacityAlwaysSizeError ==
    [][ \A t \in Threads :
          ( /\ TransferCalled(t)
            /\ Live(call'[t].h)
            /\ call'[t].len > obj[call'[t].h].size )
          => RejectedWith(t, SECURE_ERR_INVALID_SIZE)
      ]_vars

\* C6 (amended): Store/Retrieve on a live region with a present
\* data/buffer pointer and length > capacity fail with
\* SECURE_ERR_INVALID_SIZE before any state change and any protection call.
C6_OverCapacityRejected ==
    [][ \A t \in Threads :
          ( /\ TransferCalled(t)
            /\ Live(call'[t].h) /\ call'[t].ptr
            /\ call'[t].len > obj[call'[t].h].size )
          => RejectedWith(t, SECURE_ERR_INVALID_SIZE)
      ]_vars

\* a Store longer than the capacity was rejected on a region holding data
C6_Witness ==
    \E t \in Threads :
        /\ Idle(t) /\ call[t].op = "write" /\ call[t].ptr
        /\ Live(call[t].h)
        /\ call[t].len > obj[call[t].h].size
        /\ retval[t] = SECURE_ERR_INVALID_SIZE
        /\ stored[call[t].h] # <<>>
        /\ obj[call[t].h].prot = PAGE_NOACCESS

(* ------------------------------- C7 ----------------------------------- *)
\* C7: Store/Retrieve with an absent handle or an absent data/buffer
\* pointer fail with SECURE_ERR_NULL_PTR whatever the length is, without
\* any protection change or copy.
C7_NullSafety ==
    [][ \A t \in Threads :
          ( /\ TransferCalled(t)
            /\ (call'[t].h = NULL \/ ~call'[t].ptr) )
          => RejectedWith(t, SECURE_ERR_NULL_PTR)
      ]_vars

\* a Retrieve with an absent buffer and length zero on a live region that
\* holds data was rejected with SECURE_ERR_NULL_PTR
C7_Witness ==
    \E t \in Threads :
        /\ Idle(t) /\ call[t].op = "read"
        /\ Live(call[t].h) /\ ~call[t].ptr /\ call[t].len = 0
        /\ retval[t] = SECURE_ERR_NULL_PTR
        /\ stored[call[t].h] # <<>>

(* ------------------------------- C8 ----------------------------------- *)
\* thread t has finished a Store/Retrieve with handle and pointer present
\* and length zero
ZeroLengthDone(t) ==
    /\ Idle(t) /\ IsTransfer(t)
    /\ Live(call[t].h) /\ call[t].ptr /\ call[t].len = 0

\* C8 as stated: a zero length is reported as SECURE_ERR_NULL_PTR (-1).
C8_ZeroLengthIsNullPtr ==
    \A t \in Threads : ZeroLengthDone(t) => retval[t] = SECURE_ERR_NULL_PTR

\* C8 (amended): a zero length is reported as SECURE_ERR_INVALID_SIZE (-5),
\* not with the code of an absent pointer.
C8_ZeroLengthIsInvalidSize ==
    \A t \in Threads :
        ZeroLengthDone(t) =>
            /\ retval[t] = SECURE_ERR_INVALID_SIZE
            /\ retval[t] # SECURE_ERR_NULL_PTR

\* the core Store was called with length zero and returned -5
C8_Witness ==
    \E t \in Threads :
        /\ ZeroLengthDone(t)
        /\ call[t].op = "write" /\ call[t].api = "core"
        /\ retval[t] = SECURE_ERR_INVALID_SIZE

(* ------------------------------- C9 ----------------------------------- *)
\* C9: through the core and through the wrappers, Store/Retrieve with
\* handle and pointer present and length zero return -5, the code of an
\* over-long length, and leave the region unchanged.
C9_ZeroLengthSizeError ==
    [][ \A t \in Threads :
          ( /\ TransferCalled(t)
            /\ Live(call'[t].h) /\ call'[t].ptr
            /\ call'[t].len = 0 )
          => /\ RejectedWith(t, -5)
             /\ result'[t] = SECURE_ERR_INVALID_SIZE
             /\ core_check(call'[t].h, TRUE, obj[call'[t].h].size + 1) = retval'[t]
      ]_vars

\* lseco_retrieve was called with length zero and returned -5
C9_Witness ==
    \E t \in Threads :
        /\ ZeroLengthDone(t)
        /\ call[t].op = "read" /\ call[t].api = "ffi"
        /\ retval[t] = -5
        /\ stored[call[t].h] # <<>>

(* ------------------------------- C10 ---------------------------------- *)
\* thread t returns in this step because a platform call was refused
StepFailed(t) ==
    /\ pc'[t] = "idle"
    /\ \/ pc[t] \in {"create_malloc", "create_alloc", "create_lock"}
       \/ pc[t] = "create_protect" /\ ~obj'[call[t].mem].live
       \/ pc[t] \in {"write_grant", "read_grant"}
       \/ pc[t] \in {"write_revoke", "read_revoke"}
             /\ obj'[call[t].h].prot # PAGE_NOACCESS

\* the code of the step that failed
FailCode(p) ==
    IF p \in {"create_malloc", "create_alloc"} THEN SECURE_ERR_ALLOC_FAILED
    ELSE IF p = "create_lock" THEN SECURE_ERR_LOCK_FAILED
    ELSE SECURE_ERR_PROTECT_FAILED

\* C10 as stated: the caller of Create, Store and Retrieve is returned -2
\* for a failed allocation, -3 for a refused pin, -4 for a refused
\* protection change.
C10_CallerSeesFailCode ==
    [][ \A t \in Threads : StepFailed(t) => retval'[t] = FailCode(pc[t]) ]_vars

\* C10 (amended): secure_memory_create, Store and Retrieve return -2, -3,
\* -4 for a failed allocation, pin, protection change; lseco_create
\* receives the same code from the core but returns NULL for each of them.
C10_FailCodes ==
    [][ \A t \in Threads :
          StepFailed(t) =>
             /\ result'[t] = FailCode(pc[t])
             /\ retval'[t] =
                  (IF call[t].op = "create" /\ call[t].api = "ffi"
                   THEN NULL ELSE FailCode(pc[t]))
      ]_vars

\* lseco_create returned NULL after the pin was refused
C10_Witness ==
    \E t \in Threads :
        /\ Idle(t) /\ call[t].op = "create" /\ call[t].api = "ffi"
        /\ result[t] = SECURE_ERR_LOCK_FAILED
        /\ retval[t] = NULL

(* ------------------------------- C11 ---------------------------------- *)
\* thread t has finished a Create(capacity) with capacity > 0 and a place
\* to put the handle
CreateDone(t) ==
    /\ Idle(t) /\ call[t].op = "create"
    /\ call[t].s # 0 /\ call[t].len > 0

\* the next call of thread t, made in this step, is GetSize on the handle
\* its successful Create has just returned
GetSizeAfterCreate(t) ==
    /\ CreateDone(t) /\ result[t] = SECURE_SUCCESS
    /\ call'[t].op = "get_size"
    /\ call'[t].h = slot[call[t].s]

\* C11 as stated: for all capacity > 0, Create(capacity) succeeds.
C11_CreateAlwaysSucceeds ==
    \A t \in Threads : CreateDone(t) => result[t] = SECURE_SUCCESS

\* C11 (amended): for all capacity > 0, Create(capacity) either fails with
\* SECURE_ERR_ALLOC_FAILED, SECURE_ERR_LOCK_FAILED or
\* SECURE_ERR_PROTECT_FAILED, or succeeds and returns a handle to a live,
\* pinned, no-access region; GetSize on that handle returns exactly
\* capacity, not the page-rounded size of the backing block.
C11_CreateThenGetSize ==
    /\ [](\A t \in Threads :
            CreateDone(t) =>
               /\ result[t] \in {SECURE_SUCCESS, SECURE_ERR_ALLOC_FAILED,
                                 SECURE_ERR_LOCK_FAILED, SECURE_ERR_PROTECT_FAILED}
               /\ result[t] = SECURE_SUCCESS =>
                     /\ slot[call[t].s] = call[t].mem
                     /\ Live(call[t].mem)
                     /\ FullyInitialized(obj[call[t].mem])
                     /\ obj[call[t].mem].size = call[t].len)
    /\ [][ \A t \in Threads :
             GetSizeAfterCreate(t) => retval'[t] = call[t].len ]_vars

\* GetSize has returned capacity 1 for a region whose backing block is a
\* whole page
C11_Witness ==
    \E t \in Threads :
        /\ Idle(t) /\ call[t].op = "get_size"
        /\ Live(call[t].h)
        /\ retval[t] = 1
        /\ Len(obj[call[t].h].bytes) = get_page_size
        /\ obj[call[t].h].prot = PAGE_NOACCESS

(* ------------------------------- C12 ---------------------------------- *)
\* thread t makes a GetSize call in this step
GetSizeCalled(t) ==
    /\ pc[t] = "idle"
    /\ call'[t].op = "get_size"
    /\ <<pc'[t], call'[t], result'[t], retval'[t], buf'[t]>>
          # <<pc[t], call[t], result[t], retval[t], buf[t]>>

\* C12: the size field of a region is the capacity given to Create and no
\* step changes it while the region is live; GetSize returns it, returns 0
\* for an absent handle, and changes no region, handle or pinning.
C12_CapacityFixed ==
    [][ /\ \A a \in Addr :
             (obj[a].live /\ obj'[a].live) =>
                /\ obj'[a].size = obj[a].size
                /\ obj'[a].page_size = obj[a].page_size
        /\ \A t \in Threads :
             /\ (pc[t] = "create_malloc" /\ pc'[t] = "create_alloc") =>
                   obj'[call'[t].mem].size = call[t].len
             /\ GetSizeCalled(t) =>
                   /\ pc'[t] = "idle"
                   /\ obj' = obj /\ slot' = slot /\ stored' = stored
                   /\ retval'[t] = IF call'[t].h = NULL THEN 0
                                   ELSE obj[call'[t].h].size ]_vars

\* GetSize has returned the capacity of a region that a Store has written
C12_Witness ==
    \E t \in Threads :
        /\ Idle(t) /\ call[t].op = "get_size" /\ call[t].api = "ffi"
        /\ Live(call[t].h)
        /\ stored[call[t].h] # <<>>
        /\ retval[t] = 2
        /\ obj[call[t].h].size = 2

(* ------------------------------- C13 ---------------------------------- *)
\* thread t makes a Destroy call in this step
DestroyCalled(t) ==
    /\ pc[t] = "idle"
    /\ call'[t].op = "destroy"
    /\ <<pc'[t], call'[t], result'[t], retval'[t], buf'[t]>>
          # <<pc[t], call[t], result[t], retval[t], buf[t]>>

\* the call returns at once: nothing is released, unpinned or zeroed
DestroyNoOp(t) ==
    /\ pc'[t] = "idle"
    /\ obj' = obj /\ stored' = stored

\* C13 as stated: Destroy on an absent handle and a second Destroy on the
\* same, already destroyed handle never fault and are no-ops, through
\* secure_memory_destroy and through lseco_destroy.
C13_DestroyIdempotent ==
    [][ \A t \in Threads :
          (DestroyCalled(t) /\ ~Live(call'[t].h)) => DestroyNoOp(t) ]_vars

\* C13 (amended): Destroy on an absent handle never faults and is a no-op
\* that releases, unpins and zeroes nothing, through both layers;
\* secure_memory_destroy sets the caller's handle to NULL when it finishes,
\* so a second secure_memory_destroy on it is such a call; lseco_destroy
\* leaves the caller's handle as it was, referring to the released region.
C13_DestroyNullSafe ==
    [][ \A t \in Threads :
          /\ (DestroyCalled(t) /\ call'[t].h = NULL) =>
                /\ DestroyNoOp(t)
                /\ slot' = slot
          /\ (pc[t] = "destroy_free_handle" /\ pc'[t] = "idle") =>
                IF call[t].api = "core"
                THEN slot'[call[t].s] = NULL
                ELSE /\ slot' = slot
                     /\ ~obj'[call[t].h].live ]_vars

\* secure_memory_destroy(&handle) has returned for a handle that was NULL
\* while a dangling handle value is not involved
C13_Witness ==
    \E t \in Threads :
        /\ Idle(t) /\ call[t].op = "destroy" /\ call[t].api = "core"
        /\ call[t].s # 0 /\ call[t].h = NULL
        /\ slot[call[t].s] = NULL
        /\ retval[t] = SECURE_SUCCESS

(* ------------------------------- C14 ---------------------------------- *)
\* a Create is between its allocation and its pin, or a Destroy between
\* its unpin and its release, on the region at address a
PinWindow(a) ==
    \E t \in Threads :
        /\ call[t].mem = a
        /\ pc[t] \in {"create_lock", "destroy_free_data"}

\* a Create is still building the region at address a, or a Destroy has
\* unpinned it and is releasing it
BuildingOrReleasing(a) ==
    \E t \in Threads :
        /\ call[t].mem = a
        /\ pc[t] \in {"create_alloc", "create_lock", "create_protect",
                      "destroy_free_data", "destroy_free_handle"}

\* a step of a Store or Retrieve of thread t, the call included
TransferStep(t) ==
    \/ TransferCalled(t)
    \/ pc[t] \in {"write_grant", "write_copy", "write_revoke",
                  "read_grant", "read_copy", "read_revoke"}

\* C14 as stated: in every reachable state in which backing memory is
\* held, from the step that obtains it to the step that releases it, the
\* memory is pinned.
C14_PinnedWhileHeld ==
    \A a \in Addr : obj[a].data => obj[a].pinned

\* C14 (amended): backing memory that is held is pinned, except between
\* the allocation and the pin inside Create and between the unpin and the
\* release inside Destroy; a handle the caller holds to a live region
\* that no Create is building and no Destroy is releasing refers to held,
\* pinned memory, and no step of a Store or Retrieve changes pinning.
C14_PinnedOutsideWindows ==
    /\ [](/\ \A a \in Addr :
               obj[a].data => (obj[a].pinned \/ PinWindow(a))
          /\ \A s \in Slots :
               (Live(slot[s]) /\ ~BuildingOrReleasing(slot[s])) =>
                  /\ obj[slot[s]].data
                  /\ obj[slot[s]].pinned)
    /\ [][ \A t \in Threads :
             TransferStep(t) =>
                \A a \in Addr : obj'[a].pinned = obj[a].pinned ]_vars

\* a Store has succeeded on a region that is held and pinned
C14_Witness ==
    \E t \in Threads :
        /\ Idle(t) /\ call[t].op = "write" /\ retval[t] = SECURE_SUCCESS
        /\ Live(call[t].h)
        /\ obj[call[t].h].data /\ obj[call[t].h].pinned
        /\ stored[call[t].h] # <<>>

(* ------------------------------- C15 ---------------------------------- *)
\* thread t makes a Create call in this step
CreateCalled(t) ==
    /\ pc[t] = "idle"
    /\ call'[t].op = "create"
    /\ <<pc'[t], call'[t], result'[t], retval'[t], buf'[t]>>
          # <<pc[t], call[t], result[t], retval[t], buf[t]>>

\* C15: Create(0) returns at once with SECURE_ERR_INVALID_SIZE, a NULL
\* handle through lseco_create, and has allocated no handle structure and
\* no backing memory and pinned nothing.
C15_CreateZeroRejected ==
    [][ \A t \in Threads :
          (CreateCalled(t) /\ call'[t].len = 0 /\ call'[t].s # 0) =>
             /\ pc'[t] = "idle"
             /\ result'[t] = SECURE_ERR_INVALID_SIZE
             /\ retval'[t] = IF call'[t].api = "ffi" THEN NULL
                             ELSE SECURE_ERR_INVALID_SIZE
             /\ obj' = obj /\ stored' = stored
             /\ slot'[call'[t].s] = IF call'[t].api = "ffi" THEN NULL
                                    ELSE slot[call'[t].s] ]_vars

\* lseco_create(0) has returned NULL and no block is allocated
C15_Witness ==
    \E t \in Threads :
        /\ Idle(t) /\ call[t].op = "create" /\ call[t].api = "ffi"
        /\ call[t].len = 0
        /\ retval[t] = NULL /\ result[t] = SECURE_ERR_INVALID_SIZE
        /\ \A a \in Addr : obj[a] = FreeObj

(* ------------------------------- C17 ---------------------------------- *)
\* C17: a Store/Retrieve call made through lseco_store / lseco_retrieve
\* with any handle (absent or live), pointer (absent or present) and length
\* is rejected with exactly the code the checks of secure_memory_write /
\* secure_memory_read give for these arguments, touching no region, and
\* otherwise enters the core's grant step with the region untouched;
\* lseco_get_size returns what secure_memory_get_size returns.
C17_WrapperEqualsCore ==
    [][ \A t \in Threads :
          /\ (TransferCalled(t) /\ call'[t].api = "ffi") =>
                LET code == core_check(call'[t].h, call'[t].ptr, call'[t].len)
                IN  IF code # SECURE_SUCCESS
                    THEN RejectedWith(t, code)
                    ELSE /\ pc'[t] = IF call'[t].op = "write"
                                     THEN "write_grant" ELSE "read_grant"
                         /\ obj' = obj /\ slot' = slot /\ stored' = stored
          /\ (GetSizeCalled(t) /\ call'[t].api = "ffi") =>
                /\ retval'[t] = secure_memory_get_size(call'[t].h)
                /\ obj' = obj /\ slot' = slot /\ stored' = stored ]_vars

\* lseco_retrieve has refused a length over the capacity of a live region
C17_Witness ==
    \E t \in Threads :
        /\ Idle(t) /\ call[t].op = "read" /\ call[t].api = "ffi"
        /\ Live(call[t].h) /\ call[t].ptr
        /\ call[t].len > obj[call[t].h].size
        /\ retval[t] = SECURE_ERR_INVALID_SIZE

(* ------------------------------- C18 ---------------------------------- *)
\* the access-grant step of a Store/Retrieve of thread t is refused in
\* this step: the call returns from it or access is not granted
GrantFails(t) ==
    /\ pc[t] \in {"write_grant", "read_grant"}
    /\ \/ pc'[t] = "idle"
       \/ obj'[call[t].h].prot # PAGE_READWRITE

\* the call returns SECURE_ERR_PROTECT_FAILED from this step with no copy:
\* no region, no buffer and no protection has changed
FailsAtOnce(t) ==
    /\ pc'[t] = "idle"
    /\ retval'[t] = SECURE_ERR_PROTECT_FAILED
    /\ obj' = obj /\ slot' = slot /\ stored' = stored
    /\ buf'[t] = buf[t]

\* C18 as stated: a refused access grant makes Store/Retrieve return -4 at
\* once with no copy and no further platform call, and the region is
\* still no-access.
C18_GrantFailureLeavesLocked ==
    [][ \A t \in Threads :
          GrantFails(t) =>
             /\ FailsAtOnce(t)
             /\ obj'[call[t].h].prot = PAGE_NOACCESS ]_vars

\* C18 (amended): a refused access grant makes Store/Retrieve return -4 at
\* once with no copy and no further platform call; the region's bytes, the
\* caller's buffer and the region's protection are what they were before
\* the call.
C18_GrantFailureChangesNothing ==
    [][ \A t \in Threads : GrantFails(t) => FailsAtOnce(t) ]_vars

\* a Retrieve has returned -4 with the caller's buffer untouched and the
\* region still no-access
C18_Witness ==
    \E t \in Threads :
        /\ Idle(t) /\ call[t].op = "read" /\ call[t].len = 1
        /\ retval[t] = SECURE_ERR_PROTECT_FAILED
        /\ Live(call[t].h)
        /\ obj[call[t].h].prot = PAGE_NOACCESS
        /\ stored[call[t].h] = <<0>>
        /\ buf[t] = <<1>>

(* ------------------------------- C19 ---------------------------------- *)
\* the re-lock step of a Store/Retrieve of thread t is refused in this
\* step: the region is not no-access after it
RelockFails(t) ==
    /\ pc[t] \in {"write_revoke", "read_revoke"}
    /\ obj'[call[t].h].prot # PAGE_NOACCESS

\* C19: a refused re-lock makes Store/Retrieve return -4 from that step
\* with the data transferred and the region left read-write; the re-lock
\* step always returns, so there is no second attempt; a later call on the
\* read-write region passes the same checks and enters its grant step, and
\* its own re-lock, when the platform allows it, makes the region
\* no-access and the call succeed.
C19_RelockFailure ==
    [][ \A t \in Threads :
          /\ RelockFails(t) =>
                /\ retval'[t] = SECURE_ERR_PROTECT_FAILED
                /\ obj' = obj
                /\ obj'[call[t].h].prot = PAGE_READWRITE
                /\ IF call[t].op = "write"
                   THEN SubSeq(obj'[call[t].h].bytes, 1, call[t].len) = src[t]
                   ELSE /\ buf'[t] = SubSeq(obj'[call[t].h].bytes, 1, call[t].len)
                        /\ buf'[t] = buf[t]
          /\ pc[t] \in {"write_revoke", "read_revoke"} =>
                /\ pc'[t] = "idle"
                /\ obj'[call[t].h].prot = PAGE_NOACCESS =>
                      retval'[t] = SECURE_SUCCESS
          /\ ( /\ TransferCalled(t)
               /\ Live(call'[t].h)
               /\ obj[call'[t].h].prot = PAGE_READWRITE
               /\ core_check(call'[t].h, call'[t].ptr, call'[t].len) = SECURE_SUCCESS )
             => pc'[t] \in {"write_grant", "read_grant"} ]_vars

\* a Retrieve has returned -4 with the stored bytes in the caller's buffer
\* and the region left read-write
C19_Witness ==
    \E t \in Threads :
        /\ Idle(t) /\ call[t].op = "read" /\ call[t].len = 2
        /\ retval[t] = SECURE_ERR_PROTECT_FAILED
        /\ Live(call[t].h)
        /\ obj[call[t].h].prot = PAGE_READWRITE
        /\ stored[call[t].h] = <<0, 1>>
        /\ buf[t] = <<0, 1>>

(* ------------------------------- C20 ---------------------------------- *)
\* C20: for every capacity > 0 of the machine word the backing size
\* computed at Create is the smallest multiple of page_size that is
\* >= capacity, so that its extent contains all capacity bytes, and the
\* value recomputed by Store, Retrieve and Destroy equals it.
C20_BackingSizeIsRoundUp ==
    \A t \in Threads :
        pc[t] \in {"align_write", "align_read", "align_destroy", "align_done"} =>
            LET capacity == obj[call[t].mem].size
                page_size == obj[call[t].mem].page_size
            IN  /\ retval[t] % page_size = 0
                /\ retval[t] >= capacity
                /\ retval[t] - page_size < capacity
                /\ result[t] = retval[t]

(* ------------------------------- C16 ---------------------------------- *)
\* what thread u alone reads and writes besides its region: its position,
\* its call, its buffers, its results and its handle variable
ParLocal(u) == <<pc[u], call[u], src[u], buf[u], result[u], retval[u], slot[u]>>

\* the region at address a is thread u's: its handle refers to it, or its
\* running Create or Destroy works on it
Holds(u, a) ==
    /\ obj[a].live
    /\ \/ slot[u] = a
       \/ call[u].mem = a /\ pc[u] \notin {"idle", "fault"}

\* C16: with each thread working on its own region, a step of one thread
\* leaves the other thread's region (contents, capacity, protection,
\* pinning) and the other thread's call untouched; no address is the
\* region of both; and each thread's operations give what they give when
\* run alone: Store leaves the caller's bytes in its region, Retrieve
\* returns its region's bytes, a successful transfer leaves its region
\* no-access, and a successful Retrieve after a successful Store returns
\* the stored bytes.
C16_RegionsIndependent ==
    /\ [][ \A t \in Threads :
             ParLocal(t)' # ParLocal(t) =>
                \A u \in Threads \ {t} :
                   /\ ParLocal(u)' = ParLocal(u)
                   /\ \A a \in Addr :
                         Holds(u, a) =>
                            /\ obj'[a] = obj[a]
                            /\ stored'[a] = stored[a] ]_vars
    /\ [](\A t \in Threads :
            /\ \A u \in Threads \ {t}, a \in Addr : ~(Holds(t, a) /\ Holds(u, a))
            /\ pc[t] = "write_revoke" =>
                  SubSeq(obj[call[t].h].bytes, 1, call[t].len) = src[t]
            /\ pc[t] = "read_revoke" =>
                  buf[t] = SubSeq(obj[call[t].h].bytes, 1, call[t].len)
            /\ (Idle(t) /\ IsTransfer(t) /\ retval[t] = SECURE_SUCCESS) =>
                  obj[call[t].h].prot = PAGE_NOACCESS
            /\ (RetrievedAfterStore(t) /\ retval[t] = SECURE_SUCCESS) =>
                  buf[t] = stored[call[t].h])

\* thread 1 has retrieved the byte it stored in its region while thread 2
\* is in the middle of a Store to its own region, which holds another byte
C16_Witness ==
    /\ Live(slot[1]) /\ Live(slot[2]) /\ slot[1] # slot[2]
    /\ Idle(1) /\ call[1].op = "read" /\ retval[1] = SECURE_SUCCESS
    /\ stored[slot[1]] = <<0>> /\ buf[1] = <<0>>
    /\ obj[slot[1]].prot = PAGE_NOACCESS
    /\ pc[2] = "write_revoke" /\ src[2] = <<1>>
    /\ obj[slot[2]].prot = PAGE_READWRITE
    /\ obj[slot[2]].bytes[1] = 1

(* ------------------------------- C21 ---------------------------------- *)
\* C21: the copy step of a Store of length L makes bytes [0, L) of the
\* region the caller's bytes and leaves every byte from L on as it was, so
\* that behind a shorter Store the tail of the bytes stored before is still
\* there; no other step of a Store and no step of a Retrieve changes the
\* bytes of any region; and the copy step of a Retrieve of length n puts
\* the first n bytes of the region into the buffer.
C21_StoreWritesPrefixOnly ==
    [][ \A t \in Threads :
          /\ (pc[t] = "write_copy" /\ pc'[t] = "write_revoke") =>
                LET h == call[t].h
                    L == call[t].len
                    before == obj[h].bytes
                    after == obj'[h].bytes
                IN  /\ Len(after) = Len(before)
                    /\ \A i \in 1..Len(before) :
                          after[i] = IF i <= L THEN src[t][i] ELSE before[i]
                    /\ (stored[h] # <<>> /\ Len(stored[h]) > L) =>
                          SubSeq(after, 1, Len(stored[h]))
                             = src[t] \o SubSeq(stored[h], L + 1, Len(stored[h]))
          /\ (TransferStep(t) /\ pc[t] # "write_copy") =>
                \A a \in Addr : obj'[a].bytes = obj[a].bytes
          /\ (pc[t] = "read_copy" /\ pc'[t] = "read_revoke") =>
                buf'[t] = SubSeq(obj[call[t].h].bytes, 1, call[t].len) ]_vars

\* a Retrieve of two bytes has succeeded after a one-byte Store of 0: the
\* buffer holds 0 followed by the byte that was behind it
C21_Witness ==
    \E t \in Threads :
        /\ Idle(t) /\ call[t].op = "read" /\ call[t].len = 2
        /\ retval[t] = SECURE_SUCCESS
        /\ Live(call[t].h)
        /\ stored[call[t].h] = <<0>>
        /\ buf[t] = <<0, 1>>
        /\ obj[call[t].h].bytes[2] = 1

(* ------------------------------- C22 ---------------------------------- *)
GrantPcs == {"write_grant", "read_grant"}
CopyPcs == {"write_copy", "read_copy"}
RevokePcs == {"write_revoke", "read_revoke"}

\* a thread other than t returns from the re-lock step of a transfer on
\* the region of t's transfer in this step
OtherRevokes(t) ==
    \E u \in Threads \ {t} :
        /\ call[u].h = call[t].h
        /\ pc[u] \in RevokePcs /\ pc'[u] = "idle"

\* no other thread has ever called Store/Retrieve on the region of thread
\* t's transfer: t's calls on it are trivially serialized
SoleUser(t) ==
    \A u \in Threads \ {t} :
        call[u].op \in {"write", "read"} => call[u].h # call[t].h

\* C22: no step of Store/Retrieve waits for another thread, so on one
\* region the steps of two threads interleave: a thread reaches its copy
\* step only with access granted, and while it waits there access is taken
\* away only by the re-lock step of another thread's transfer on the same
\* region; its copy then runs on a no-access region and faults. When no
\* other thread steps between its grant and its copy (calls serialized),
\* the copy therefore runs while the region is read-write, as it does for
\* a thread that is the only one to use the region.
C22_CopyExposedToOtherRevoke ==
    /\ [](\A t \in Threads :
            (pc[t] \in CopyPcs /\ SoleUser(t)) =>
                obj[call[t].h].prot = PAGE_READWRITE)
    /\ [][ \A t \in Threads :
             /\ (pc[t] \in GrantPcs /\ pc'[t] \in CopyPcs) =>
                   obj'[call[t].h].prot = PAGE_READWRITE
             /\ ( /\ pc[t] \in CopyPcs /\ pc'[t] = pc[t]
                  /\ obj[call[t].h].prot = PAGE_READWRITE
                  /\ obj'[call[t].h].prot # PAGE_READWRITE )
                => OtherRevokes(t)
             /\ (pc[t] \in CopyPcs /\ pc'[t] # pc[t]) =>
                   IF obj[call[t].h].prot = PAGE_READWRITE
                   THEN pc'[t] \in RevokePcs
                   ELSE pc'[t] = "fault" /\ obj' = obj /\ buf' = buf ]_vars

\* thread 1 has run the copy of its Store after thread 2's Retrieve, which
\* has returned success, had set the region no-access
C22_Witness ==
    /\ pc[1] = "fault" /\ call[1].op = "write"
    /\ Idle(2) /\ call[2].op = "read" /\ retval[2] = SECURE_SUCCESS
    /\ call[2].h = call[1].h
    /\ obj[call[1].h].prot = PAGE_NOACCESS

====
